---- MODULE Spec2Model ----
(***************************************************************************)
(* State-machine model of py/vtdb/vtgate_cursor.py: the materialized       *)
(* VTGateCursor, the StreamVTGateCursor and sort_row_list_by_columns.      *)
(*                                                                         *)
(* Python values are encoded as follows.  None is the integer -1 in the    *)
(* integer slots (rowcount, lastrowid, result_set_index, return value; the *)
(* modelled connection only returns values >= 0 there) and the string      *)
(* "None" in the slots holding opaque objects (results, description,       *)
(* generator).  True is 1, as in Python.  A statement text is a sequence   *)
(* of one-character strings.                                               *)
(***************************************************************************)
EXTENDS Integers, Sequences, FiniteSets, TLC

VARIABLES
  writable,          \* VTGateCursor._writable
  results,           \* VTGateCursor.results
  rowcount,          \* VTGateCursor.rowcount
  lastrowid,         \* VTGateCursor.lastrowid
  description,       \* VTGateCursor.description
  result_sets,       \* VTGateCursor.result_sets
  result_set_index,  \* VTGateCursor.result_set_index
  stream_writable,   \* StreamVTGateCursor._writable
  generator,         \* StreamVTGateCursor.generator
  stream_description,\* StreamVTGateCursor.description
  row_list,          \* argument and result of sort_row_list_by_columns
  sort_columns,      \* argument of sort_row_list_by_columns
  desc_columns,      \* argument of sort_row_list_by_columns
  orig_rows,         \* history: row_list as passed by the caller
  order_by_columns,  \* argument of fetch_aggregate
  limit,             \* argument of fetch_aggregate
  neutered_rows,     \* result of fetch_aggregate
  lastOp,            \* history: the operation that ran last
  lastArgs,          \* history: its sql / params_list arguments
  ret,               \* history: its return value
  raised,            \* history: the exception it raised, or NoError
  connCall,          \* history: the connection primitive it invoked
  connRet,           \* history: what that primitive returned
  txn,               \* history: the transaction directive it handled
  run                \* history: nextset calls since the last executemany

cursorVars == <<writable, results, rowcount, lastrowid, description,
                result_sets, result_set_index>>
streamVars == <<stream_writable, generator, stream_description>>
sortVars == <<row_list, sort_columns, desc_columns, orig_rows,
              order_by_columns, limit, neutered_rows>>
histVars == <<lastOp, lastArgs, ret, raised, connCall, connRet, txn, run>>
vars == <<cursorVars, streamVars, sortVars, histVars>>

None == -1
NoneObj == "None"
True == 1

(***************************************************************************)
(* Bounds.                                                                 *)
(***************************************************************************)
MaxBatch == 2   \* longest params_list passed to executemany
MaxRows == 3    \* longest row_list passed to sort_row_list_by_columns
MaxSortCols == 2 \* longest sort_columns passed to sort_row_list_by_columns

(***************************************************************************)
(* Statement texts.                                                        *)
(***************************************************************************)
S_insert == <<"i","n","s","e","r","t"," ","t">>
S_Update == <<" ","U","p","d","a","t","e"," ","t">>
S_DELETE == <<"\t","\n","D","E","L","E","T","E">>
S_inserted == <<"i","n","s","e","r","t","e","d">>
S_select == <<"s","e","l","e","c","t"," ","1">>
S_SELECT == <<" ","S","E","L","E","C","T">>
S_inser == <<"i","n","s","e","r">>
S_xdelete == <<"x"," ","d","e","l","e","t","e">>
S_begin == <<"b","e","g","i","n">>
S_Commit == <<" ","C","o","m","m","i","t"," ">>
S_rollback == <<"r","o","l","l","b","a","c","k">>
S_empty == <<>>

Statements ==
  {S_insert, S_Update, S_DELETE, S_inserted, S_select, S_SELECT, S_inser,
   S_xdelete, S_begin, S_Commit, S_rollback, S_empty}

\* params['sql'] of an executemany parameter set; Missing: the key is absent
Missing == <<"<", "m", "i", "s", "s", "i", "n", "g", ">">>
NoSql == <<"<", "N", "o", "n", "e", ">">>
BatchStatements == {S_Update, S_select, Missing}

UpperCase == <<"A","B","C","D","E","F","G","H","I","J","K","L","M",
               "N","O","P","Q","R","S","T","U","V","W","X","Y","Z">>
LowerCase == <<"a","b","c","d","e","f","g","h","i","j","k","l","m",
               "n","o","p","q","r","s","t","u","v","w","x","y","z">>

\* re.IGNORECASE: a character matches a pattern letter when their lower-case
\* forms agree
Lower(c) ==
  IF \E i \in 1..26 : UpperCase[i] = c
    THEN LowerCase[CHOOSE i \in 1..26 : UpperCase[i] = c]
    ELSE c

\* the character class \s
WhiteSpace == {" ", "\t", "\n", "\r", "\f"}

WriteKeywords ==
  {<<"i","n","s","e","r","t">>, <<"u","p","d","a","t","e">>,
   <<"d","e","l","e","t","e">>}

\* sql has the literal kw at position from+1, compared case-insensitively
HasKeywordAt(sql, from, kw) ==
  /\ Len(sql) >= from + Len(kw)
  /\ \A j \in 1..Len(kw) : Lower(sql[from + j]) = kw[j]

WriteSqlMatch_CaseSensitive(sql) ==
  \E n \in 0..Len(sql) :
    /\ \A j \in 1..n : sql[j] \in WhiteSpace
    /\ \E kw \in WriteKeywords :
         /\ Len(sql) >= n + Len(kw)
         /\ \A j \in 1..Len(kw) : sql[n + j] = kw[j]

\* bool(write_sql_pattern.match(sql)): \s*(insert|update|delete) anchored at
\* the start of the text
WriteSqlMatch(sql) ==
  \E n \in 0..Len(sql) :
    /\ \A j \in 1..n : sql[j] \in WhiteSpace
    /\ \E kw \in WriteKeywords : HasKeywordAt(sql, n, kw)

(***************************************************************************)
(* Values exchanged with the connection.                                   *)
(***************************************************************************)
\* (results, rowcount, lastrowid, fields) tuples a connection primitive
\* may return
ResultTuples ==
  {<<"rows_a", 1, None, "fields_a">>, <<"rows_b", 2, 5, NoneObj>>}

\* (generator, description) pairs _stream_execute may return
StreamResults == {"gen_a", "gen_b", "gen_c"} \X {"fields_a", "fields_b", NoneObj}

NoError == [type |-> "none", msg |-> "", args |-> <<>>]
\* an error raised inside a connection primitive
UpstreamError == [type |-> "UpstreamError", msg |-> "", args |-> <<>>]
KeyError == [type |-> "KeyError", msg |-> "sql", args |-> <<>>]

NoCall == [prim |-> "none", sqls |-> <<>>, not_in_transaction |-> "n/a"]
NoArgs == [sql |-> NoSql, params |-> <<>>]
NoRun == [len |-> None, trues |-> 0, ended |-> FALSE]

PyBool(b) == IF b THEN "True" ELSE "False"

(***************************************************************************)
(* base_cursor: the parts of the base classes the cursors rely on.         *)
(***************************************************************************)
TxnKeywords ==
  {<<"b","e","g","i","n">>, <<"c","o","m","m","i","t">>,
   <<"r","o","l","l","b","a","c","k">>}

\* the number of leading white-space characters of sql
LeadingSpace(sql) ==
  CHOOSE n \in 0..Len(sql) :
    /\ \A j \in 1..n : sql[j] \in WhiteSpace
    /\ (n < Len(sql) => sql[n + 1] \notin WhiteSpace)

\* _handle_transaction_sql(sql): TRUE when the leading token of sql is
\* begin, commit or rollback, compared case-insensitively
HandleTransactionSql(sql) ==
  LET n == LeadingSpace(sql) IN
    \E kw \in TxnKeywords :
      /\ HasKeywordAt(sql, n, kw)
      /\ (Len(sql) > n + Len(kw) => sql[n + Len(kw) + 1] \in WhiteSpace)

\* _clear_list_state(): the current fetch state is reset
ClearListState ==
  /\ results' = NoneObj
  /\ rowcount' = None
  /\ lastrowid' = None
  /\ description' = NoneObj

\* _clear_stream_state(): the row producer and the description are dropped
ClearStreamState ==
  /\ generator' = NoneObj
  /\ stream_description' = NoneObj

(***************************************************************************)
(* VTGateCursor                                                            *)
(***************************************************************************)
\* self.results, self.rowcount, self.lastrowid, self.description = r
SetListState(r) ==
  /\ results' = r[1]
  /\ rowcount' = r[2]
  /\ lastrowid' = r[3]
  /\ description' = r[4]

\* _clear_batch_state()
ClearBatchState ==
  /\ result_sets' = <<>>
  /\ result_set_index' = None

\* VTGateCursor.__init__
InitCursor(w) ==
  /\ writable = w
  /\ description = NoneObj
  /\ lastrowid = None
  /\ results = NoneObj
  /\ rowcount = 0
  /\ result_sets = <<>>
  /\ result_set_index = None

Execute_NoTxnReturn(sql) ==
  /\ lastOp' = "execute"
  /\ lastArgs' = [sql |-> sql, params |-> <<>>]
  /\ run' = NoRun
  /\ UNCHANGED <<writable, result_sets, result_set_index>>
  /\ txn' = HandleTransactionSql(sql)
  /\ IF WriteSqlMatch(sql) /\ ~writable
       THEN /\ ClearListState
            /\ ret' = None
            /\ raised' = [type |-> "DatabaseError",
                          msg |-> "DML on a non-writable cursor",
                          args |-> <<sql>>]
            /\ connCall' = NoCall
            /\ connRet' = <<>>
       ELSE /\ connCall' =
                 [prim |-> "_execute", sqls |-> <<sql>>,
                  not_in_transaction |-> PyBool(~writable)]
            /\ \/ \E r \in ResultTuples :
                    /\ connRet' = <<r>>
                    /\ SetListState(r)
                    /\ ret' = r[2]
                    /\ raised' = NoError
               \/ /\ connRet' = <<>>
                  /\ ClearListState
                  /\ ret' = None
                  /\ raised' = UpstreamError

Execute_ClearLate(sql) ==
  /\ lastOp' = "execute"
  /\ lastArgs' = [sql |-> sql, params |-> <<>>]
  /\ run' = NoRun
  /\ UNCHANGED <<writable, result_sets, result_set_index>>
  /\ IF HandleTransactionSql(sql)
       THEN /\ UNCHANGED <<results, rowcount, lastrowid, description>>
            /\ txn' = TRUE
            /\ ret' = None
            /\ raised' = NoError
            /\ connCall' = NoCall
            /\ connRet' = <<>>
       ELSE /\ txn' = FALSE
            /\ IF WriteSqlMatch(sql) /\ ~writable
                 THEN /\ UNCHANGED <<results, rowcount, lastrowid,
                                     description>>
                      /\ ret' = None
                      /\ raised' = [type |-> "DatabaseError",
                                    msg |-> "DML on a non-writable cursor",
                                    args |-> <<sql>>]
                      /\ connCall' = NoCall
                      /\ connRet' = <<>>
                 ELSE /\ connCall' =
                           [prim |-> "_execute", sqls |-> <<sql>>,
                            not_in_transaction |-> PyBool(~writable)]
                      /\ \/ \E r \in ResultTuples :
                              /\ connRet' = <<r>>
                              /\ SetListState(r)
                              /\ ret' = r[2]
                              /\ raised' = NoError
                         \/ /\ connRet' = <<>>
                            /\ ClearListState
                            /\ ret' = None
                            /\ raised' = UpstreamError

\* execute(sql, bind_variables)
Execute(sql) ==
  /\ lastOp' = "execute"
  /\ lastArgs' = [sql |-> sql, params |-> <<>>]
  /\ run' = NoRun
  /\ UNCHANGED <<writable, result_sets, result_set_index>>
  /\ IF HandleTransactionSql(sql)
       THEN /\ ClearListState
            /\ txn' = TRUE
            /\ ret' = None
            /\ raised' = NoError
            /\ connCall' = NoCall
            /\ connRet' = <<>>
       ELSE /\ txn' = FALSE
            /\ IF WriteSqlMatch(sql) /\ ~writable
                 THEN /\ ClearListState
                      /\ ret' = None
                      /\ raised' = [type |-> "DatabaseError",
                                    msg |-> "DML on a non-writable cursor",
                                    args |-> <<sql>>]
                      /\ connCall' = NoCall
                      /\ connRet' = <<>>
                 ELSE /\ connCall' =
                           [prim |-> "_execute", sqls |-> <<sql>>,
                            not_in_transaction |-> PyBool(~writable)]
                      /\ \/ \E r \in ResultTuples :
                              /\ connRet' = <<r>>
                              /\ SetListState(r)
                              /\ ret' = r[2]
                              /\ raised' = NoError
                         \/ /\ connRet' = <<>>
                            /\ ClearListState
                            /\ ret' = None
                            /\ raised' = UpstreamError

\* execute_entity_ids(sql, bind_variables, entity_keyspace_id_map,
\* entity_column_name)
ExecuteEntityIds(sql) ==
  /\ lastOp' = "execute_entity_ids"
  /\ lastArgs' = [sql |-> sql, params |-> <<>>]
  /\ run' = NoRun
  /\ txn' = FALSE
  /\ UNCHANGED <<writable, result_sets, result_set_index>>
  /\ IF WriteSqlMatch(sql)
       THEN /\ ClearListState
            /\ ret' = None
            /\ raised' =
                 [type |-> "DatabaseError",
                  msg |-> "execute_entity_ids is not allowed for write queries",
                  args |-> <<>>]
            /\ connCall' = NoCall
            /\ connRet' = <<>>
       ELSE /\ connCall' =
                 [prim |-> "_execute_entity_ids", sqls |-> <<sql>>,
                  not_in_transaction |-> PyBool(~writable)]
            /\ \/ \E r \in ResultTuples :
                    /\ connRet' = <<r>>
                    /\ SetListState(r)
                    /\ ret' = r[2]
                    /\ raised' = NoError
               \/ /\ connRet' = <<>>
                  /\ ClearListState
                  /\ ret' = None
                  /\ raised' = UpstreamError

NextsetIndex_FromOne(idx) == IF idx = None THEN 1 ELSE idx + 1

\* the index nextset() moves to
NextsetIndex(idx) == IF idx = None THEN 0 ELSE idx + 1

NextsetFrom_NoClear(rs, idx) ==
  LET i == NextsetIndex(idx) IN
    IF i < Len(rs)
      THEN /\ SetListState(rs[i + 1])
           /\ result_sets' = rs
           /\ result_set_index' = i
      ELSE /\ ClearListState
           /\ result_sets' = rs
           /\ result_set_index' = i

NextsetFrom_KeepSets(rs, idx) ==
  LET i == NextsetIndex(idx) IN
    IF i < Len(rs)
      THEN /\ SetListState(rs[i + 1])
           /\ result_sets' = rs
           /\ result_set_index' = i
      ELSE /\ ClearListState
           /\ result_sets' = rs
           /\ result_set_index' = None

NextsetFrom_KeepListOnEnd(rs, idx) ==
  LET i == NextsetIndex(idx) IN
    IF i < Len(rs)
      THEN /\ SetListState(rs[i + 1])
           /\ result_sets' = rs
           /\ result_set_index' = i
      ELSE /\ UNCHANGED <<results, rowcount, lastrowid, description>>
           /\ ClearBatchState

\* nextset() run on the batch state (rs, idx): its effect on the cursor
NextsetFrom(rs, idx) ==
  LET i == NextsetIndex(idx) IN
    IF i < Len(rs)
      THEN /\ SetListState(rs[i + 1])
           /\ result_sets' = rs
           /\ result_set_index' = i
      ELSE /\ ClearListState
           /\ ClearBatchState

NextsetReturn_AlwaysTrue(rs, idx) == True

\* the value nextset() returns on the batch state (rs, idx)
NextsetReturn(rs, idx) ==
  IF NextsetIndex(idx) < Len(rs) THEN True ELSE None

\* nextset()
Nextset ==
  /\ lastOp' = "nextset"
  /\ lastArgs' = NoArgs
  /\ txn' = FALSE
  /\ raised' = NoError
  /\ connCall' = NoCall
  /\ connRet' = <<>>
  /\ UNCHANGED writable
  /\ NextsetFrom(result_sets, result_set_index)
  /\ ret' = NextsetReturn(result_sets, result_set_index)
  /\ run' = IF run.len = None \/ run.ended
              THEN NoRun
              ELSE IF NextsetReturn(result_sets, result_set_index) = True
                     THEN [run EXCEPT !.trues = @ + 1]
                     ELSE [run EXCEPT !.ended = TRUE]

\* base_cursor close(): the fetch resources are released
BaseClose == ClearListState

Close_NoBatchClear ==
  /\ lastOp' = "close"
  /\ lastArgs' = NoArgs
  /\ txn' = FALSE
  /\ raised' = NoError
  /\ connCall' = NoCall
  /\ connRet' = <<>>
  /\ ret' = None
  /\ run' = NoRun
  /\ UNCHANGED writable
  /\ BaseClose
  /\ UNCHANGED <<result_sets, result_set_index>>

\* close()
Close ==
  /\ lastOp' = "close"
  /\ lastArgs' = NoArgs
  /\ txn' = FALSE
  /\ raised' = NoError
  /\ connCall' = NoCall
  /\ connRet' = <<>>
  /\ ret' = None
  /\ run' = NoRun
  /\ UNCHANGED writable
  /\ BaseClose
  /\ ClearBatchState

\* the params_list values passed to executemany: each element is the
\* params['sql'] entry of one parameter set
ParamsLists == UNION {[1..n -> BatchStatements] : n \in 0..MaxBatch}

\* the ordered results _execute_batch may return: one per statement
BatchResults(n) == [1..n -> ResultTuples]

\* sql_list as executemany builds it
SqlList(sql, params_list) ==
  IF sql # NoSql /\ sql # <<>>
    THEN [i \in 1..Len(params_list) |-> sql]
    ELSE params_list

ExecuteMany_NoClear(sql, params_list) ==
  /\ lastOp' = "executemany"
  /\ lastArgs' = [sql |-> sql, params |-> params_list]
  /\ txn' = FALSE
  /\ ret' = None
  /\ UNCHANGED writable
  /\ LET sql_list == SqlList(sql, params_list) IN
       IF \E i \in 1..Len(sql_list) : sql_list[i] = Missing
         THEN /\ raised' = KeyError
              /\ connCall' = NoCall
              /\ connRet' = <<>>
              /\ run' = NoRun
              /\ UNCHANGED <<results, rowcount, lastrowid, description,
                             result_sets, result_set_index>>
         ELSE /\ connCall' =
                   [prim |-> "_execute_batch", sqls |-> sql_list,
                    not_in_transaction |-> "n/a"]
              /\ \/ \E rs \in BatchResults(Len(sql_list)) :
                      /\ connRet' = rs
                      /\ raised' = NoError
                      /\ NextsetFrom(rs, result_set_index)
                      /\ run' = [len |-> Len(params_list), trues |-> 0,
                                 ended |-> FALSE]
                 \/ /\ connRet' = <<>>
                    /\ raised' = UpstreamError
                    /\ ClearBatchState
                    /\ run' = NoRun
                    /\ UNCHANGED <<results, rowcount, lastrowid,
                                   description>>

ExecuteMany_ClearAfterCall(sql, params_list) ==
  /\ lastOp' = "executemany"
  /\ lastArgs' = [sql |-> sql, params |-> params_list]
  /\ txn' = FALSE
  /\ ret' = None
  /\ UNCHANGED writable
  /\ LET sql_list == SqlList(sql, params_list) IN
       IF \E i \in 1..Len(sql_list) : sql_list[i] = Missing
         THEN /\ raised' = KeyError
              /\ connCall' = NoCall
              /\ connRet' = <<>>
              /\ run' = NoRun
              /\ UNCHANGED <<results, rowcount, lastrowid, description,
                             result_sets, result_set_index>>
         ELSE /\ connCall' =
                   [prim |-> "_execute_batch", sqls |-> sql_list,
                    not_in_transaction |-> "n/a"]
              /\ \/ \E rs \in BatchResults(Len(sql_list)) :
                      /\ connRet' = rs
                      /\ raised' = NoError
                      /\ NextsetFrom(rs, None)
                      /\ run' = [len |-> Len(params_list), trues |-> 0,
                                 ended |-> FALSE]
                 \/ /\ connRet' = <<>>
                    /\ raised' = UpstreamError
                    /\ run' = NoRun
                    /\ UNCHANGED <<results, rowcount, lastrowid,
                                   description, result_sets,
                                   result_set_index>>

\* executemany(sql, params_list)
ExecuteMany(sql, params_list) ==
  /\ lastOp' = "executemany"
  /\ lastArgs' = [sql |-> sql, params |-> params_list]
  /\ txn' = FALSE
  /\ ret' = None
  /\ UNCHANGED writable
  /\ LET sql_list == SqlList(sql, params_list) IN
       IF \E i \in 1..Len(sql_list) : sql_list[i] = Missing
         THEN /\ raised' = KeyError
              /\ connCall' = NoCall
              /\ connRet' = <<>>
              /\ run' = NoRun
              /\ UNCHANGED <<results, rowcount, lastrowid, description,
                             result_sets, result_set_index>>
         ELSE /\ connCall' =
                   [prim |-> "_execute_batch", sqls |-> sql_list,
                    not_in_transaction |-> "n/a"]
              /\ \/ \E rs \in BatchResults(Len(sql_list)) :
                      /\ connRet' = rs
                      /\ raised' = NoError
                      /\ NextsetFrom(rs, None)
                      /\ run' = [len |-> Len(params_list), trues |-> 0,
                                 ended |-> FALSE]
                 \/ /\ connRet' = <<>>
                    /\ raised' = UpstreamError
                    /\ ClearBatchState
                    /\ run' = NoRun
                    /\ UNCHANGED <<results, rowcount, lastrowid,
                                   description>>

(***************************************************************************)
(* The materialized cursor as a state machine.                             *)
(***************************************************************************)
InitHistory ==
  /\ lastOp = "init"
  /\ lastArgs = NoArgs
  /\ ret = None
  /\ raised = NoError
  /\ connCall = NoCall
  /\ connRet = <<>>
  /\ txn = FALSE
  /\ run = NoRun

InitStreamIdle ==
  /\ stream_writable = FALSE
  /\ generator = NoneObj
  /\ stream_description = NoneObj

InitAggIdle ==
  /\ order_by_columns = <<>>
  /\ limit = 0
  /\ neutered_rows = <<>>

InitSortIdle ==
  /\ row_list = <<>>
  /\ sort_columns = <<>>
  /\ desc_columns = {}
  /\ orig_rows = <<>>
  /\ InitAggIdle

Init ==
  /\ \E w \in BOOLEAN : InitCursor(w)
  /\ InitStreamIdle
  /\ InitSortIdle
  /\ InitHistory

DoExecute ==
  /\ \E sql \in Statements : Execute(sql)
  /\ UNCHANGED <<streamVars, sortVars>>

DoExecuteEntityIds ==
  /\ \E sql \in Statements : ExecuteEntityIds(sql)
  /\ UNCHANGED <<streamVars, sortVars>>

\* the shared sql argument of executemany: a text, the empty text or None
BatchSqlArgs == {S_insert, S_empty, NoSql}

DoExecuteMany ==
  /\ \E sql \in BatchSqlArgs :
       \E params_list \in ParamsLists : ExecuteMany(sql, params_list)
  /\ UNCHANGED <<streamVars, sortVars>>

DoNextset ==
  /\ Nextset
  /\ UNCHANGED <<streamVars, sortVars>>

DoClose ==
  /\ Close
  /\ UNCHANGED <<streamVars, sortVars>>

Next ==
  \/ DoExecute
  \/ DoExecuteEntityIds
  \/ DoExecuteMany
  \/ DoNextset
  \/ DoClose

Spec == Init /\ [][Next]_vars

(***************************************************************************)
(* Properties of the materialized cursor.                                  *)
(***************************************************************************)
ConnPrimitives ==
  {"_execute", "_execute_entity_ids", "_execute_batch", "_stream_execute"}

\* the current fetch state as a result tuple
ListState == <<results, rowcount, lastrowid, description>>
ClearedListState == <<NoneObj, None, None, NoneObj>>

\* sql without its leading white space
RECURSIVE LStrip(_)
LStrip(sql) ==
  IF sql # <<>> /\ Head(sql) \in WhiteSpace THEN LStrip(Tail(sql)) ELSE sql

\* the text begins, after leading white space and in any letter case, with
\* insert, update or delete
IsWriteText(sql) ==
  LET rest == LStrip(sql) IN
    /\ Len(rest) >= 6
    /\ [i \in 1..6 |-> Lower(rest[i])] \in WriteKeywords

\* C1: on a cursor constructed with writable=False no statement matching
\* the write pattern is handed to a connection primitive.
C1_NoWriteOnNonWritable ==
  (~writable /\ connCall.prim \in ConnPrimitives) =>
    \A i \in 1..Len(connCall.sqls) : ~IsWriteText(connCall.sqls[i])

\* C2 (as stated): the nextset calls that follow executemany(sql,
\* params_list) make exactly len(params_list) true advances before the
\* false advance, which leaves result_sets empty.
C2_AdvancesAsStated ==
  run.ended => (run.trues = run.len /\ result_sets = <<>>)

\* C2 (amended): executemany makes the first advance itself, so the nextset
\* calls that follow make exactly len(params_list) - 1 true advances (none
\* for an empty params_list) before the false advance, which leaves
\* result_sets empty; until then the cursor stands on the result set
\* numbered by the true advances made so far.
C2_AdvancesAfterExecuteMany ==
  /\ run.ended =>
       /\ run.trues = (IF run.len = 0 THEN 0 ELSE run.len - 1)
       /\ ret = None
       /\ result_sets = <<>>
  /\ (run.len >= 1 /\ ~run.ended) =>
       /\ result_set_index = run.trues
       /\ Len(result_sets) = run.len

C2_Witness ==
  /\ run.ended
  /\ run.len = 2
  /\ run.trues = 1

\* C3: after execute or execute_entity_ids the batch state is cleared:
\* result_sets is empty and result_set_index is unset.
C3_NonBatchExecuteClearsBatch ==
  lastOp \in {"execute", "execute_entity_ids"} =>
    (result_sets = <<>> /\ result_set_index = None)

\* C4: between operations result_set_index is unset or an index into
\* result_sets (0 <= result_set_index < len(result_sets)); an advance past
\* the last result set leaves the batch state cleared.
C4_IndexInRange ==
  /\ \/ result_set_index = None
     \/ (0 <= result_set_index /\ result_set_index < Len(result_sets))
  /\ (lastOp = "nextset" /\ ret = None) =>
       (result_sets = <<>> /\ result_set_index = None)

C4_Witness ==
  /\ lastOp = "nextset"
  /\ ret = None
  /\ run.ended
  /\ run.trues >= 1
  /\ raised = NoError

\* C5: on a non-writable cursor execute raises the policy-violation
\* DatabaseError exactly for the texts that begin, after white space and
\* in any letter case, with insert, update or delete; for every other text
\* it raises no policy error and, when the connection returns a result,
\* succeeds with that result.
C5_PolicyErrorIffWrite ==
  (~writable /\ lastOp = "execute") =>
    IF IsWriteText(lastArgs.sql)
      THEN /\ raised.type = "DatabaseError"
           /\ raised.msg = "DML on a non-writable cursor"
           /\ connCall = NoCall
      ELSE /\ raised.type # "DatabaseError"
           /\ connRet # <<>> =>
                /\ raised = NoError
                /\ ListState = connRet[1]
                /\ ret = rowcount

C5_Witness ==
  /\ ~writable
  /\ lastOp = "execute"
  /\ lastArgs.sql = S_DELETE
  /\ raised.type = "DatabaseError"

\* C6: a write statement passed to execute on a non-writable cursor, or to
\* execute_entity_ids on any cursor, is rejected before a connection
\* primitive is invoked, with a DatabaseError carrying the statement text.
C6_PolicyErrorCarriesSql ==
  /\ (lastOp = "execute" /\ ~writable /\ IsWriteText(lastArgs.sql)) =>
       /\ connCall = NoCall
       /\ raised.type = "DatabaseError"
       /\ raised.args = <<lastArgs.sql>>
  /\ (lastOp = "execute_entity_ids" /\ IsWriteText(lastArgs.sql)) =>
       /\ connCall = NoCall
       /\ raised.type = "DatabaseError"
       /\ raised.args = <<lastArgs.sql>>

\* C8: close leaves result_sets empty and result_set_index unset whatever
\* the state before, and a second close changes nothing.
C8_CloseClearsAndIsIdempotent ==
  [][lastOp' = "close" =>
       /\ result_sets' = <<>>
       /\ result_set_index' = None
       /\ (lastOp = "close" => cursorVars' = cursorVars)]_vars

C8_Witness ==
  /\ lastOp = "close"
  /\ result_sets = <<>>
  /\ result_set_index = None
  /\ ListState = ClearedListState

\* C9: when executemany succeeds result_sets is the sequence the batch
\* primitive returned for this call, and for a non-empty batch the cursor
\* stands on the first result set: result_set_index = 0 and the current
\* fetch state is result_sets[0].
C9_ExecuteManyPositionsFirst ==
  (lastOp = "executemany" /\ raised = NoError) =>
    IF connRet = <<>>
      THEN result_sets = <<>> /\ result_set_index = None
      ELSE /\ result_sets = connRet
           /\ result_set_index = 0
           /\ ListState = result_sets[1]

C9_Witness ==
  /\ lastOp = "executemany"
  /\ raised = NoError
  /\ Len(result_sets) = 2
  /\ result_set_index = 0
  /\ result_sets[1] # result_sets[2]

(***************************************************************************)
(* StreamVTGateCursor                                                      *)
(***************************************************************************)
\* StreamVTGateCursor.__init__
InitStreamCursor(w) ==
  /\ stream_writable = w
  /\ generator = NoneObj
  /\ stream_description = NoneObj

StreamExecute_NoWritableCheck(sql) ==
  /\ lastOp' = "stream_execute"
  /\ lastArgs' = [sql |-> sql, params |-> <<>>]
  /\ txn' = FALSE
  /\ run' = NoRun
  /\ UNCHANGED stream_writable
  /\ connCall' = [prim |-> "_stream_execute", sqls |-> <<sql>>,
                  not_in_transaction |-> PyBool(~stream_writable)]
  /\ \E g \in StreamResults :
       /\ connRet' = <<g>>
       /\ generator' = g[1]
       /\ stream_description' = g[2]
       /\ ret' = 0
       /\ raised' = NoError

StreamExecute_NoClear(sql) ==
  /\ lastOp' = "stream_execute"
  /\ lastArgs' = [sql |-> sql, params |-> <<>>]
  /\ txn' = FALSE
  /\ run' = NoRun
  /\ UNCHANGED stream_writable
  /\ IF stream_writable
       THEN /\ raised' = [type |-> "ProgrammingError",
                          msg |-> "Streaming query cannot be writable",
                          args |-> <<>>]
            /\ ret' = None
            /\ connCall' = NoCall
            /\ connRet' = <<>>
            /\ UNCHANGED <<generator, stream_description>>
       ELSE /\ connCall' =
                 [prim |-> "_stream_execute", sqls |-> <<sql>>,
                  not_in_transaction |-> PyBool(~stream_writable)]
            /\ \/ \E g \in StreamResults :
                    /\ connRet' = <<g>>
                    /\ generator' = g[1]
                    /\ stream_description' = g[2]
                    /\ ret' = 0
                    /\ raised' = NoError
               \/ /\ connRet' = <<>>
                  /\ UNCHANGED <<generator, stream_description>>
                  /\ ret' = None
                  /\ raised' = UpstreamError

\* StreamVTGateCursor.execute(sql, bind_variables)
StreamExecute(sql) ==
  /\ lastOp' = "stream_execute"
  /\ lastArgs' = [sql |-> sql, params |-> <<>>]
  /\ txn' = FALSE
  /\ run' = NoRun
  /\ UNCHANGED stream_writable
  /\ IF stream_writable
       THEN /\ raised' = [type |-> "ProgrammingError",
                          msg |-> "Streaming query cannot be writable",
                          args |-> <<>>]
            /\ ret' = None
            /\ connCall' = NoCall
            /\ connRet' = <<>>
            /\ UNCHANGED <<generator, stream_description>>
       ELSE /\ connCall' =
                 [prim |-> "_stream_execute", sqls |-> <<sql>>,
                  not_in_transaction |-> PyBool(~stream_writable)]
            /\ \/ \E g \in StreamResults :
                    /\ connRet' = <<g>>
                    /\ generator' = g[1]
                    /\ stream_description' = g[2]
                    /\ ret' = 0
                    /\ raised' = NoError
               \/ /\ connRet' = <<>>
                  /\ ClearStreamState
                  /\ ret' = None
                  /\ raised' = UpstreamError

\* close() of the streaming cursor: the row producer is dropped
StreamClose ==
  /\ lastOp' = "stream_close"
  /\ lastArgs' = NoArgs
  /\ txn' = FALSE
  /\ run' = NoRun
  /\ raised' = NoError
  /\ ret' = None
  /\ connCall' = NoCall
  /\ connRet' = <<>>
  /\ UNCHANGED stream_writable
  /\ ClearStreamState

InitStream ==
  /\ InitCursor(FALSE)
  /\ \E w \in BOOLEAN : InitStreamCursor(w)
  /\ InitSortIdle
  /\ InitHistory

DoStreamExecute ==
  /\ \E sql \in Statements : StreamExecute(sql)
  /\ UNCHANGED <<cursorVars, sortVars>>

DoStreamClose ==
  /\ StreamClose
  /\ UNCHANGED <<cursorVars, sortVars>>

NextStream ==
  \/ DoStreamExecute
  \/ DoStreamClose

SpecStream == InitStream /\ [][NextStream]_vars

\* C7: execute on a streaming cursor constructed with writable=True raises
\* a programming error, invokes no connection primitive and leaves the row
\* producer and the description as they were.
C7_WritableStreamFails ==
  [][(stream_writable /\ lastOp' = "stream_execute") =>
       /\ raised'.type = "ProgrammingError"
       /\ connCall' = NoCall
       /\ generator' = generator
       /\ stream_description' = stream_description]_vars

C7_Witness ==
  /\ stream_writable
  /\ lastOp = "stream_execute"
  /\ raised.type = "ProgrammingError"
  /\ connCall = NoCall

(***************************************************************************)
(* sort_row_list_by_columns                                                *)
(***************************************************************************)
RECURSIVE Reverse(_)
Reverse(s) == IF s = <<>> THEN <<>> ELSE Append(Reverse(Tail(s)), Head(s))

\* row placed into a sequence sorted on column col, behind the rows whose
\* key is not larger
RECURSIVE InsertByKey(_, _, _)
InsertByKey(sorted, row, col) ==
  IF sorted = <<>>
    THEN <<row>>
    ELSE IF Head(sorted)[col] <= row[col]
           THEN <<Head(sorted)>> \o InsertByKey(Tail(sorted), row, col)
           ELSE <<row>> \o sorted

\* a stable ascending sort on column col
RECURSIVE StableSort(_, _)
StableSort(s, col) ==
  IF s = <<>>
    THEN <<>>
    ELSE InsertByKey(StableSort(SubSeq(s, 1, Len(s) - 1), col), s[Len(s)], col)

PySorted_ReverseAfter(s, col, reverse) ==
  IF reverse THEN Reverse(StableSort(s, col)) ELSE StableSort(s, col)

\* sorted(s, key=itemgetter(col), reverse=reverse) and list.sort: with
\* reverse the list is reversed, sorted and reversed back, which keeps rows
\* of equal key in their original order
PySorted(s, col, reverse) ==
  IF reverse
    THEN Reverse(StableSort(Reverse(s), col))
    ELSE StableSort(s, col)

\* the passes taken in declared order, i counting the passes still to do
RECURSIVE SortPasses_Forward(_, _, _, _)
SortPasses_Forward(rows, cols, desc, i) ==
  IF i = 0
    THEN rows
    ELSE LET c == Len(cols) - i + 1 IN
           SortPasses_Forward(PySorted(rows, c, cols[c] \in desc), cols, desc,
                              i - 1)

\* the passes of the loop for the columns i, i-1, ..., 1 of sort_columns
RECURSIVE SortPasses(_, _, _, _)
SortPasses(rows, cols, desc, i) ==
  IF i = 0
    THEN rows
    ELSE SortPasses(PySorted(rows, i, cols[i] \in desc), cols, desc, i - 1)

\* sort_row_list_by_columns(row_list, sort_columns, desc_columns)
SortRowListByColumns(rows, cols, desc) ==
  SortPasses(rows, cols, desc, Len(cols))

ColumnNames == {"a", "b"}
\* rows of two leading sort-key columns and one payload column
Rows == (0..1) \X (0..1) \X (0..1)
RowLists == UNION {[1..n -> Rows] : n \in 0..MaxRows}
SortSpecs == UNION {[1..k -> ColumnNames] : k \in 0..MaxSortCols}

InitSort ==
  /\ InitCursor(FALSE)
  /\ InitStreamIdle
  /\ InitHistory
  /\ row_list \in RowLists
  /\ orig_rows = row_list
  /\ sort_columns \in SortSpecs
  /\ desc_columns \in SUBSET ColumnNames
  /\ InitAggIdle

DoSort ==
  /\ lastOp = "init"
  /\ lastOp' = "sort_row_list_by_columns"
  /\ row_list' = SortRowListByColumns(row_list, sort_columns, desc_columns)
  /\ UNCHANGED <<sort_columns, desc_columns, orig_rows>>
  /\ UNCHANGED <<order_by_columns, limit, neutered_rows>>
  /\ UNCHANGED <<lastArgs, ret, raised, connCall, connRet, txn, run>>
  /\ UNCHANGED <<cursorVars, streamVars>>

NextSort == DoSort

SpecSort == InitSort /\ [][NextSort]_vars

\* r1 comes strictly before r2 in the declared order: on the first sort
\* column where they differ r1 has the smaller value, or the larger one
\* when that column is declared descending
RowBefore(r1, r2, cols, desc) ==
  \E c \in 1..Len(cols) :
    /\ \A d \in 1..(c - 1) : r1[d] = r2[d]
    /\ IF cols[c] \in desc THEN r1[c] > r2[c] ELSE r1[c] < r2[c]

SameKey(r1, r2, cols) == \A c \in 1..Len(cols) : r1[c] = r2[c]

Occurrences(s, r) == Cardinality({i \in 1..Len(s) : s[i] = r})

\* C10: sort_row_list_by_columns returns a permutation of the input rows
\* that is non-decreasing in the lexicographic order of the sort columns,
\* first column dominant, each in its declared direction, and rows equal
\* on all sort columns keep their original relative order.
C10_SortIsStableLexicographic ==
  lastOp = "sort_row_list_by_columns" =>
    /\ Len(row_list) = Len(orig_rows)
    /\ \A r \in Rows : Occurrences(row_list, r) = Occurrences(orig_rows, r)
    /\ \A i, j \in 1..Len(row_list) :
         i < j => ~RowBefore(row_list[j], row_list[i], sort_columns,
                             desc_columns)
    /\ \A r \in Rows :
         SelectSeq(row_list, LAMBDA x : SameKey(x, r, sort_columns)) =
           SelectSeq(orig_rows, LAMBDA x : SameKey(x, r, sort_columns))

C10_Witness ==
  /\ lastOp = "sort_row_list_by_columns"
  /\ sort_columns = <<"a", "b">>
  /\ desc_columns = {"a"}
  /\ orig_rows = <<<<0, 1, 0>>, <<1, 0, 0>>, <<1, 0, 1>>>>
  /\ row_list = <<<<1, 0, 0>>, <<1, 0, 1>>, <<0, 1, 0>>>>

(***************************************************************************)
(* fetch_aggregate                                                         *)
(***************************************************************************)
IndexError == [type |-> "IndexError", msg |-> "tuple index out of range",
               args |-> <<>>]

\* ascii_lower(string): only the letters A-Z are folded
AsciiLower(string) == [i \in 1..Len(string) |-> Lower(string[i])]

\* An order clause.  tuple: the clause is a tuple or list; col: its column
\* (order_clause[0], or the clause itself when it is a bare column); dir:
\* the elements after the column, a direction text or nothing.
BareClause(c) == [tuple |-> FALSE, col |-> c, dir |-> <<>>]
OneTupleClause(c) == [tuple |-> TRUE, col |-> c, dir |-> <<>>]
PairClause(c, d) == [tuple |-> TRUE, col |-> c, dir |-> <<d>>]

D_desc == <<"d","e","s","c">>
D_DeSC == <<"D","e","S","C">>
D_asc == <<"a","s","c">>

OrderClauses ==
  {PairClause("a", D_desc), PairClause("a", D_DeSC),
   BareClause("b"), OneTupleClause("b"), PairClause("b", D_asc)}
OrderSpecs == UNION {[1..k -> OrderClauses] : k \in 0..MaxSortCols}

\* rows laid out as [sort key a, sort key b, payload]; the payload tells
\* the rows apart
AggRows ==
  {<<0, 0, 0>>, <<1, 0, 2>>, <<1, 1, 3>>, <<1, 1, 4>>}
AggRowLists == UNION {[1..n -> AggRows] : n \in 0..MaxRows}

\* sort_columns as the loop of fetch_aggregate builds it
AggSortColumns(order) == [i \in 1..Len(order) |-> order[i].col]

\* desc_columns as the loop of fetch_aggregate builds it
AggDescColumns(order) ==
  {order[i].col : i \in {j \in 1..Len(order) :
                           /\ order[j].tuple
                           /\ AsciiLower(order[j].dir[1]) = D_desc}}

Take_OneMore(rows, n) ==
  SubSeq(rows, 1, IF n + 1 < Len(rows) THEN n + 1 ELSE Len(rows))

\* rows[:n] and itertools.islice(rows, n) for n >= 0
Take(rows, n) == SubSeq(rows, 1, IF n < Len(rows) THEN n ELSE Len(rows))

DropLeading_OneLess(row, n) ==
  SubSeq(row, IF n > 0 THEN n ELSE 1, Len(row))

\* row[n:]
DropLeading(row, n) == SubSeq(row, n + 1, Len(row))

\* the rows fetch_aggregate returns when no order clause raises; rows is
\* what fetchall() returned
FetchAggregateRows(rows, order, lim) ==
  LET sorted_rows ==
        IF Len(order) > 0
          THEN Take(SortRowListByColumns(rows, AggSortColumns(order),
                                         AggDescColumns(order)), lim)
          ELSE Take(rows, lim)
  IN [i \in 1..Len(sorted_rows) |-> DropLeading(sorted_rows[i], Len(order))]

\* fetch_aggregate(order_by_columns, limit)
FetchAggregate ==
  /\ lastOp' = "fetch_aggregate"
  /\ UNCHANGED <<row_list, sort_columns, desc_columns, orig_rows,
                 order_by_columns, limit>>
  /\ UNCHANGED <<lastArgs, ret, connCall, connRet, txn, run>>
  /\ IF \E i \in 1..Len(order_by_columns) :
          order_by_columns[i].tuple /\ order_by_columns[i].dir = <<>>
       THEN /\ raised' = IndexError
            /\ UNCHANGED neutered_rows
       ELSE /\ raised' = NoError
            /\ neutered_rows' =
                 FetchAggregateRows(row_list, order_by_columns, limit)

InitAgg ==
  /\ InitCursor(FALSE)
  /\ InitStreamIdle
  /\ InitHistory
  /\ row_list \in AggRowLists
  /\ orig_rows = row_list
  /\ sort_columns = <<>>
  /\ desc_columns = {}
  /\ order_by_columns \in OrderSpecs
  /\ limit \in 0..(MaxRows + 1)
  /\ neutered_rows = <<>>

DoFetchAggregate ==
  /\ lastOp = "init"
  /\ FetchAggregate
  /\ UNCHANGED <<cursorVars, streamVars>>

NextAgg == DoFetchAggregate

SpecAgg == InitAgg /\ [][NextAgg]_vars

(***************************************************************************)
(* Properties of fetch_aggregate.                                          *)
(***************************************************************************)
\* rows in the order a stable sort gives them under the strict order
\* Before: a row is preceded by the rows that come before it and by the
\* earlier rows that are neither before nor after it
StableOrder(rows, Before(_, _)) ==
  LET n == Len(rows)
      Rank(i) ==
        Cardinality({j \in 1..n :
                       \/ Before(rows[j], rows[i])
                       \/ (j < i /\ ~Before(rows[i], rows[j]))}) + 1
  IN [p \in 1..n |-> rows[CHOOSE i \in 1..n : Rank(i) = p]]

\* seq is the first lim rows of sorted, each without its k leading columns
IsTruncatedAndStripped(seq, sorted, lim, k) ==
  /\ Len(seq) = (IF lim < Len(sorted) THEN lim ELSE Len(sorted))
  /\ \A i \in 1..Len(seq) :
       /\ Len(seq[i]) = Len(sorted[i]) - k
       /\ \A j \in 1..Len(seq[i]) : seq[i][j] = sorted[i][k + j]

ADescThenBAsc(r1, r2) ==
  r1[1] > r2[1] \/ (r1[1] = r2[1] /\ r1[2] < r2[2])

BAscThenADesc(r1, r2) ==
  r1[2] < r2[2] \/ (r1[2] = r2[2] /\ r1[1] > r2[1])

\* C11 (as stated): with the order spec [("a","desc"), ("b",)], b given
\* without a direction (as a one-element tuple or a bare column),
\* fetch_aggregate sorts by b ascending first, ties broken by a descending,
\* truncates to limit and removes the two leading columns.
C11_BPrimaryAsStated ==
  (/\ lastOp = "fetch_aggregate"
   /\ Len(order_by_columns) = 2
   /\ order_by_columns[1] = PairClause("a", D_desc)
   /\ order_by_columns[2] \in {OneTupleClause("b"), BareClause("b")}) =>
    /\ raised = NoError
    /\ IsTruncatedAndStripped(neutered_rows,
                              StableOrder(orig_rows, BAscThenADesc), limit, 2)

\* C11 (amended): with the order spec [("a","desc"), "b"], b a bare column,
\* fetch_aggregate sorts by a descending first, ties broken by b ascending,
\* truncates to limit and removes the two leading columns.
C11_APrimary ==
  (/\ lastOp = "fetch_aggregate"
   /\ Len(order_by_columns) = 2
   /\ order_by_columns[1] \in {PairClause("a", D_desc), PairClause("a", D_DeSC)}
   /\ order_by_columns[2] = BareClause("b")) =>
    /\ raised = NoError
    /\ IsTruncatedAndStripped(neutered_rows,
                              StableOrder(orig_rows, ADescThenBAsc), limit, 2)

C11_Witness ==
  /\ lastOp = "fetch_aggregate"
  /\ order_by_columns = <<PairClause("a", D_desc), BareClause("b")>>
  /\ orig_rows = <<<<0, 0, 0>>, <<1, 1, 3>>, <<1, 0, 2>>>>
  /\ limit = 2
  /\ neutered_rows = <<<<2>>, <<3>>>>

\* C12: with an empty order spec fetch_aggregate returns the first limit
\* rows in their existing order, each row unchanged.
C12_EmptyOrderTakesFirstRows ==
  (lastOp = "fetch_aggregate" /\ order_by_columns = <<>>) =>
    /\ raised = NoError
    /\ Len(neutered_rows) =
         (IF limit < Len(orig_rows) THEN limit ELSE Len(orig_rows))
    /\ \A i \in 1..Len(neutered_rows) : neutered_rows[i] = orig_rows[i]

C12_Witness ==
  /\ lastOp = "fetch_aggregate"
  /\ order_by_columns = <<>>
  /\ orig_rows = <<<<1, 1, 3>>, <<0, 0, 0>>, <<1, 0, 2>>>>
  /\ limit = 2
  /\ neutered_rows = <<<<1, 1, 3>>, <<0, 0, 0>>>>

\* the columns an order spec marks descending
DeclaredDesc(order) ==
  {order[i].col : i \in {j \in 1..Len(order) :
                           order[j].dir \in {<<D_desc>>, <<D_DeSC>>}}}

\* every clause is a bare column or a (column, direction) pair
WellFormedOrder(order) ==
  \A i \in 1..Len(order) : order[i].tuple => Len(order[i].dir) = 1

\* C14: for a non-empty order spec of k entries fetch_aggregate returns
\* min(limit, n) rows, the first rows of the sorted sequence in sorted
\* order, each without its k leading columns.
C14_TruncatesAndStrips ==
  (/\ lastOp = "fetch_aggregate"
   /\ Len(order_by_columns) > 0
   /\ WellFormedOrder(order_by_columns)) =>
    /\ raised = NoError
    /\ IsTruncatedAndStripped(
         neutered_rows,
         StableOrder(orig_rows,
                     LAMBDA r1, r2 :
                       RowBefore(r1, r2,
                                 [i \in 1..Len(order_by_columns) |->
                                    order_by_columns[i].col],
                                 DeclaredDesc(order_by_columns))),
         limit, Len(order_by_columns))

C14_Witness ==
  /\ lastOp = "fetch_aggregate"
  /\ order_by_columns = <<PairClause("a", D_DeSC)>>
  /\ orig_rows = <<<<0, 0, 0>>, <<1, 1, 3>>, <<1, 0, 2>>>>
  /\ limit = 4
  /\ neutered_rows = <<<<1, 3>>, <<0, 2>>, <<0, 0>>>>

(***************************************************************************)
(* Further properties of the cursors.                                      *)
(***************************************************************************)
BatchCleared == result_sets = <<>> /\ result_set_index = None

\* C13: nextset moves result_set_index to 0 when it was unset and one
\* further otherwise; when the new index is in bounds the current fetch
\* state becomes that result set and True is returned, otherwise the batch
\* state is cleared and a falsy value is returned without an error.
C13_NextsetAdvancesByOne ==
  [][lastOp' = "nextset" =>
       LET i == IF result_set_index = None THEN 0 ELSE result_set_index + 1
       IN /\ raised' = NoError
          /\ IF i < Len(result_sets)
               THEN /\ result_set_index' = i
                    /\ result_sets' = result_sets
                    /\ <<results', rowcount', lastrowid', description'>> =
                         result_sets[i + 1]
                    /\ ret' = True
               ELSE /\ result_sets' = <<>>
                    /\ result_set_index' = None
                    /\ ret' = None]_vars

C13_Witness ==
  /\ lastOp = "nextset"
  /\ ret = True
  /\ result_set_index = 1
  /\ ListState = result_sets[2]
  /\ result_sets[1] # result_sets[2]

\* C15: execute given a transaction-control directive returns without
\* invoking a connection execute primitive and without a policy error, on
\* writable and non-writable cursors alike, and leaves the current fetch
\* state cleared.
C15_TransactionSqlReturnsEarly ==
  (lastOp = "execute" /\ lastArgs.sql \in {S_begin, S_Commit, S_rollback}) =>
    /\ connCall = NoCall
    /\ raised = NoError
    /\ ret = None
    /\ ListState = ClearedListState

C15_Witness ==
  /\ ~writable
  /\ lastOp = "execute"
  /\ lastArgs.sql = S_Commit
  /\ txn
  /\ connCall = NoCall

\* C17: when the batch primitive raises during executemany the batch state
\* is left empty and the current fetch state is what it was before the
\* call.
C17_BatchErrorKeepsFetchState ==
  [][(lastOp' = "executemany" /\ raised' = UpstreamError) =>
       /\ result_sets' = <<>>
       /\ result_set_index' = None
       /\ connCall'.prim = "_execute_batch"
       /\ <<results', rowcount', lastrowid', description'>> = ListState]_vars

C17_Witness ==
  /\ lastOp = "executemany"
  /\ raised = UpstreamError
  /\ BatchCleared
  /\ results = "rows_b"
  /\ rowcount = 2

\* C18: a falsy nextset leaves the batch state cleared, and from a cleared
\* batch state every nextset is falsy and the batch state stays cleared
\* until an executemany succeeds.
C18_ExhaustedStaysExhausted ==
  [][/\ (lastOp' = "nextset" /\ ret' = None) =>
          (result_sets' = <<>> /\ result_set_index' = None)
     /\ BatchCleared =>
          /\ lastOp' = "nextset" => ret' = None
          /\ ~(lastOp' = "executemany" /\ raised' = NoError) =>
               (result_sets' = <<>> /\ result_set_index' = None)]_vars

C18_Witness ==
  /\ lastOp = "nextset"
  /\ ret = None
  /\ run = NoRun
  /\ BatchCleared

\* C19: nextset on a cursor whose result_sets is empty returns a falsy
\* value, clears the current fetch state and leaves the batch state empty
\* and unset.
C19_NextsetWithoutBatchDiscards ==
  [][(result_sets = <<>> /\ lastOp' = "nextset") =>
       /\ ret' = None
       /\ raised' = NoError
       /\ <<results', rowcount', lastrowid', description'>> = ClearedListState
       /\ result_sets' = <<>>
       /\ result_set_index' = None]_vars

C19_Witness ==
  /\ lastOp = "nextset"
  /\ ret = None
  /\ run = NoRun
  /\ ListState = ClearedListState
  /\ result_sets = <<>>
  /\ ~writable

\* C20: after a failed execute or execute_entity_ids, rejected by policy
\* or failed in the connection, the current fetch state is cleared.
C20_FailedExecuteLeavesCleared ==
  (lastOp \in {"execute", "execute_entity_ids"} /\ raised # NoError) =>
    ListState = ClearedListState

C20_Witness ==
  /\ lastOp = "execute"
  /\ raised.type = "DatabaseError"
  /\ ListState = ClearedListState
  /\ result_sets # <<>>

\* C16: on a non-writable streaming cursor a successful execute invokes
\* _stream_execute with not_in_transaction true, stores the producer and
\* description it returned and returns 0; a producer the cursor holds is
\* the one returned by the latest execute, which succeeded.
C16_StreamExecuteStoresProducer ==
  /\ (~stream_writable /\ lastOp = "stream_execute" /\ raised = NoError) =>
       /\ connCall = [prim |-> "_stream_execute", sqls |-> <<lastArgs.sql>>,
                      not_in_transaction |-> "True"]
       /\ connRet = <<<<generator, stream_description>>>>
       /\ ret = 0
  /\ generator # NoneObj =>
       /\ lastOp = "stream_execute"
       /\ raised = NoError
       /\ generator = connRet[1][1]

C16_Witness ==
  /\ ~stream_writable
  /\ lastOp = "stream_execute"
  /\ raised = NoError
  /\ generator = "gen_b"
  /\ stream_description = "fields_a"

====
